---- MODULE Spec2Model ----
(***************************************************************************)
(* Model of rcv_logs.py: the serial log-download client (#LIST / #GET).     *)
(* Text is a sequence of one-character strings; a byte of the serial       *)
(* stream is one such character.  Time is counted in ticks of 0.1 s: a     *)
(* serial read returns as soon as it has the bytes it asked for, or after  *)
(* its timeout of 0.2 s with the bytes that arrived meanwhile.             *)
(***************************************************************************)
EXTENDS Integers, Sequences, FiniteSets, TLC

(***************************************************************************)
(* Program constants, times in ticks of 0.1 s.                             *)
(***************************************************************************)
SER_TIMEOUT == 2
LIST_LINE_TIMEOUT == 20
LIST_GRACE == 10
READ_LINE_TIMEOUT_S == 50
READ_FILE_TIMEOUT_S == 600
FOOTER_TIMEOUT == 50
CHUNK == 4096
\* open_serial: time.sleep(0.3)
OPEN_SLEEP == 3

CR == "\r"
LF == "\n"
CRLF == <<CR, LF>>
\* A byte or a character of ASCII is written as itself, or "xHH" with its
\* two hexadecimal digits when it has no other notation; a byte above 0x7F
\* is written "xHH", a character above U+007F "uHHHH" with the hexadecimal
\* digits of its code point (four or more).
HIGH == "xFF"
NUL == "x00"
REPL == "uFFFD"
None == <<"<None>">>

(***************************************************************************)
(* Python's str and bytes operations used by the client.                   *)
(***************************************************************************)
\* F of the value of e, the value being computed once
With(e, F(_)) == CHOOSE r \in {F(x) : x \in {e}} : TRUE

\* the characters str.isspace() is true of; an ASCII one is written as its
\* byte, the others by their code points
TAB == "\t"
VT == "x0B"
FF == "\f"
FS == "x1C"
GS == "x1D"
RS == "x1E"
US == "x1F"
AsciiWhitespace == {TAB, LF, VT, FF, CR, FS, GS, RS, US, " "}
Whitespace ==
  AsciiWhitespace \cup
    {"u0085", "u00A0", "u1680", "u2000", "u2001", "u2002", "u2003", "u2004",
     "u2005", "u2006", "u2007", "u2008", "u2009", "u200A", "u2028", "u2029",
     "u202F", "u205F", "u3000"}
\* the characters int() skips around a number: those of str.isspace()
\* without the four separators 0x1C-0x1F
IntWhitespace == Whitespace \ {FS, GS, RS, US}

\* s[a..b] as Python's s[a-1:b]: the bounds are cut to the string
Slice(s, a, b) ==
  LET lo == IF a < 1 THEN 1 ELSE a
      hi == IF b > Len(s) THEN Len(s) ELSE b
  IN  IF lo > hi THEN <<>> ELSE SubSeq(s, lo, hi)

\* bytes.endswith / str.startswith
EndsWith(s, suf) ==
  /\ Len(s) >= Len(suf)
  /\ Slice(s, Len(s) - Len(suf) + 1, Len(s)) = suf

StartsWith(s, pre) ==
  /\ Len(s) >= Len(pre)
  /\ Slice(s, 1, Len(pre)) = pre

\* positions of character c in s
Positions(s, c) == {i \in 1..Len(s) : s[i] = c}
MinOf(S) == CHOOSE x \in S : \A y \in S : x <= y
MaxOf(S) == CHOOSE x \in S : \A y \in S : x >= y

HEX == "0123456789ABCDEF"
HexDigit(n) == SubSeq(HEX, n + 1, n + 1)
HexDigitVal(h) == CHOOSE n \in 0..15 : HexDigit(n) = h

\* the number a string of hexadecimal digits writes
RECURSIVE HexVal(_)
HexVal(hs) ==
  IF hs = "" THEN 0
  ELSE 16 * HexVal(SubSeq(hs, 1, Len(hs) - 1))
         + HexDigitVal(SubSeq(hs, Len(hs), Len(hs)))

\* n in hexadecimal digits, w of them at least
RECURSIVE HexText(_, _)
HexText(n, w) ==
  IF n < 16 /\ w <= 1 THEN HexDigit(n)
  ELSE HexText(n \div 16, w - 1) \o HexDigit(n % 16)

\* the notation of the byte n > 0x7F and of the character cp > U+007F, and
\* the number a notation stands for
ByteName(n) == "x" \o HexText(n, 2)
CharName(cp) == "u" \o HexText(cp, 4)
ByteVal(b) == HexVal(Tail(b))
CharVal(c) == HexVal(Tail(c))

\* the byte or character is one of ASCII
IsAscii(b) == Len(b) = 1 \/ (Head(b) = "x" /\ HexVal(Tail(b)) < 128)

\* the code points of the digit zero of the scripts other than ASCII that
\* have decimal digits (Unicode 14, category Nd): the digits one to nine of
\* the script follow their zero
NdZeros ==
  {1632, 1776, 1984, 2406, 2534, 2662, 2790, 2918, 3046,
   3174, 3302, 3430, 3558, 3664, 3792, 3872, 4160, 4240,
   6112, 6160, 6470, 6608, 6784, 6800, 6992, 7088, 7232,
   7248, 42528, 43216, 43264, 43472, 43504, 43600, 44016, 65296,
   66720, 68912, 69734, 69872, 69942, 70096, 70384, 70736, 70864,
   71248, 71360, 71472, 71904, 72016, 72784, 73040, 73120, 92768,
   92864, 93008, 120782, 120792, 120802, 120812, 120822, 123200, 123632,
   125264, 130032}

\* the characters int() takes as decimal digits: those of ASCII and those of
\* every other script
Digits ==
  {"0", "1", "2", "3", "4", "5", "6", "7", "8", "9"}
    \cup {CharName(z + k) : z \in NdZeros, k \in 0..9}

\* the value of a decimal digit
DigitVal(c) ==
  IF IsAscii(c)
  THEN CASE c = "0" -> 0 [] c = "1" -> 1 [] c = "2" -> 2 [] c = "3" -> 3
         [] c = "4" -> 4 [] c = "5" -> 5 [] c = "6" -> 6 [] c = "7" -> 7
         [] c = "8" -> 8 [] c = "9" -> 9
  ELSE With(CharVal(c), LAMBDA cp :
         cp - (CHOOSE z \in NdZeros : cp \in z..(z + 9)))

\* UTF-8: the length of the sequence the byte v leads (0 when it leads
\* none: a continuation byte, 0xC0, 0xC1, 0xF5-0xFF), and the range of the
\* byte that may follow it
SeqLen(v) ==
  IF v \in 194..223 THEN 2
  ELSE IF v \in 224..239 THEN 3
  ELSE IF v \in 240..244 THEN 4
  ELSE 0
SecondLo(v) == CASE v = 224 -> 160 [] v = 240 -> 144 [] OTHER -> 128
SecondHi(v) == CASE v = 237 -> 159 [] v = 244 -> 143 [] OTHER -> 191

\* byte j after the lead at p continues the sequence
Continues(buf, p, j) ==
  /\ p + j <= Len(buf)
  /\ ~IsAscii(buf[p + j])
  /\ IF j = 1
     THEN ByteVal(buf[p + j]) \in SecondLo(ByteVal(buf[p]))..SecondHi(ByteVal(buf[p]))
     ELSE ByteVal(buf[p + j]) \in 128..191

\* the number of bytes after the lead at p that continue its sequence
Good(buf, p) ==
  MaxOf({k \in 0..(IF SeqLen(ByteVal(buf[p])) = 0 THEN 0
                   ELSE SeqLen(ByteVal(buf[p])) - 1) :
           \A j \in 1..k : Continues(buf, p, j)})

\* the code point of the whole sequence of n bytes at p
CodePoint(buf, p, n) ==
  CASE n = 2 -> (ByteVal(buf[p]) - 192) * 64 + (ByteVal(buf[p + 1]) - 128)
    [] n = 3 -> (ByteVal(buf[p]) - 224) * 4096 + (ByteVal(buf[p + 1]) - 128) * 64
                  + (ByteVal(buf[p + 2]) - 128)
    [] n = 4 -> (ByteVal(buf[p]) - 240) * 262144
                  + (ByteVal(buf[p + 1]) - 128) * 4096
                  + (ByteVal(buf[p + 2]) - 128) * 64 + (ByteVal(buf[p + 3]) - 128)

\* bytes.decode("utf-8", errors="replace"): ASCII decodes to itself, a whole
\* sequence to its character; a byte that can lead no sequence, and a
\* sequence cut short (by another byte or by the end), is one U+FFFD.
RECURSIVE Decode(_)
Decode(bytes) ==
  With(bytes, LAMBDA buf :
  With({i \in 1..Len(buf) : ~IsAscii(buf[i])}, LAMBDA high :
    IF high = {} THEN buf
    ELSE With(MinOf(high), LAMBDA p :
         With(SeqLen(ByteVal(buf[p])), LAMBDA n :
         With(Good(buf, p), LAMBDA k :
           Slice(buf, 1, p - 1)
             \o <<IF n > 0 /\ k = n - 1 THEN CharName(CodePoint(buf, p, n)) ELSE REPL>>
             \o Decode(Slice(buf, p + k + 1, Len(buf))))))))

\* the UTF-8 bytes of one character
EncodeChar(c) ==
  IF IsAscii(c) THEN <<c>>
  ELSE With(CharVal(c), LAMBDA cp :
         IF cp < 2048
         THEN <<ByteName(192 + (cp \div 64)), ByteName(128 + (cp % 64))>>
         ELSE IF cp < 65536
         THEN <<ByteName(224 + (cp \div 4096)), ByteName(128 + ((cp \div 64) % 64)),
                ByteName(128 + (cp % 64))>>
         ELSE <<ByteName(240 + (cp \div 262144)), ByteName(128 + ((cp \div 4096) % 64)),
                ByteName(128 + ((cp \div 64) % 64)), ByteName(128 + (cp % 64))>>)

\* str.encode("utf-8") raises UnicodeEncodeError for a surrogate
EncodeRaises(s) ==
  \E i \in 1..Len(s) : ~IsAscii(s[i]) /\ CharVal(s[i]) \in 55296..57343

\* str.encode("utf-8") of text the client sends
RECURSIVE Encode(_)
Encode(text) ==
  With(text, LAMBDA s :
    IF \A i \in 1..Len(s) : IsAscii(s[i]) THEN s
    ELSE IF Len(s) = 1 THEN EncodeChar(s[1])
    ELSE Encode(Slice(s, 1, Len(s) \div 2))
           \o Encode(Slice(s, (Len(s) \div 2) + 1, Len(s))))

\* s without the characters of ws at its two ends
StripOf(s, ws) ==
  LET idx == {i \in 1..Len(s) : s[i] \notin ws}
  IN  IF idx = {} THEN <<>>
      ELSE LET lo == CHOOSE i \in idx : \A j \in idx : i <= j
               hi == CHOOSE i \in idx : \A j \in idx : i >= j
           IN  Slice(s, lo, hi)

\* str.strip()
Strip(s) == StripOf(s, Whitespace)

\* value of a string of decimal digits, of whatever scripts
RECURSIVE DigitsValue(_)
DigitsValue(s) ==
  IF s = <<>> THEN 0
  ELSE 10 * DigitsValue(Slice(s, 1, Len(s) - 1)) + DigitVal(s[Len(s)])

IsDigit(c) == c \in Digits

\* the most digits int() converts: sys.get_int_max_str_digits(), 4300 by
\* default since CPython 3.11; a longer number is a ValueError
INT_MAX_STR_DIGITS == 4300

\* the digits of a number as int() takes them: decimal digits of any
\* script, with single underscores between them, and no more digits than
\* the interpreter converts (underscores are not counted)
DigitGroups(body) ==
  /\ body # <<>>
  /\ \A i \in 1..Len(body) : body[i] \in Digits \cup {"_"}
  /\ body[1] # "_" /\ body[Len(body)] # "_"
  /\ \A i \in 1..(Len(body) - 1) : ~(body[i] = "_" /\ body[i + 1] = "_")
  /\ Len(SelectSeq(body, IsDigit)) <= INT_MAX_STR_DIGITS

\* int(s): surrounding whitespace skipped, an optional sign, then the
\* decimal digits (of ASCII or of any other script, "\u0663" being 3), at
\* most INT_MAX_STR_DIGITS of them.  ok = FALSE stands for ValueError.
ParseInt(s) ==
  With(StripOf(s, IntWhitespace), LAMBDA t :
    LET signed == t # <<>> /\ t[1] \in {"-", "+"}
        body == IF signed THEN Tail(t) ELSE t
    IN  IF DigitGroups(body)
        THEN [ok |-> TRUE,
              val |-> IF signed /\ t[1] = "-"
                      THEN 0 - DigitsValue(SelectSeq(body, IsDigit))
                      ELSE DigitsValue(SelectSeq(body, IsDigit))]
        ELSE [ok |-> FALSE, val |-> 0])

\* a split on the first colon instead of the last
RSplitColon_First(s) ==
  LET ps == Positions(s, ":")
  IN  IF ps = {} THEN <<s>>
      ELSE <<Slice(s, 1, MinOf(ps) - 1), Slice(s, MinOf(ps) + 1, Len(s))>>

\* rest.rsplit(":", 1): the list of parts
RSplitColon(s) ==
  LET ps == Positions(s, ":")
  IN  IF ps = {} THEN <<s>>
      ELSE <<Slice(s, 1, MaxOf(ps) - 1), Slice(s, MaxOf(ps) + 1, Len(s))>>

\* hdr.split(" ", 2): the list of parts (at most three)
SplitSpace2(s) ==
  LET ps == Positions(s, " ")
  IN  IF ps = {} THEN <<s>>
      ELSE LET p1 == MinOf(ps)
               qs == {p \in ps : p > p1}
           IN  IF qs = {} THEN <<Slice(s, 1, p1 - 1), Slice(s, p1 + 1, Len(s))>>
               ELSE <<Slice(s, 1, p1 - 1),
                      Slice(s, p1 + 1, MinOf(qs) - 1),
                      Slice(s, MinOf(qs) + 1, Len(s))>>

\* the last element of a sequence
Last(q) == q[Len(q)]

\* the separators of a path
Seps(plat) == IF plat = "nt" THEN {"/", "\\"} ELSE {"/"}

\* ntpath.splitdrive: the drive a path begins with ("X:", or the server and
\* share of a UNC path) and the rest; posixpath knows no drive.  The server
\* is looked for behind \\?\UNC\ (in either case, with either separator)
\* when the path begins with it.
SplitDrive(plat, p) ==
  IF plat = "posix" \/ Len(p) < 2 THEN [drive |-> <<>>, rest |-> p]
  ELSE IF p[1] \in Seps(plat) /\ p[2] \in Seps(plat)
  THEN With(IF /\ Len(p) >= 8
               /\ p[3] = "?" /\ p[4] \in Seps(plat)
               /\ p[5] \in {"U", "u"} /\ p[6] \in {"N", "n"}
               /\ p[7] \in {"C", "c"} /\ p[8] \in Seps(plat)
            THEN 8 ELSE 2, LAMBDA start :
       With({i \in (start + 1)..Len(p) : p[i] \in Seps(plat)}, LAMBDA s1 :
         IF s1 = {} THEN [drive |-> p, rest |-> <<>>]
         ELSE With({i \in (MinOf(s1) + 1)..Len(p) : p[i] \in Seps(plat)}, LAMBDA s2 :
                IF s2 = {} THEN [drive |-> p, rest |-> <<>>]
                ELSE [drive |-> Slice(p, 1, MinOf(s2) - 1),
                      rest |-> Slice(p, MinOf(s2), Len(p))])))
  ELSE IF p[2] = ":" THEN [drive |-> Slice(p, 1, 2), rest |-> Slice(p, 3, Len(p))]
  ELSE [drive |-> <<>>, rest |-> p]

\* os.path.basename: what follows the last separator of the path behind its
\* drive
Basename(plat, p) ==
  With(SplitDrive(plat, p).rest, LAMBDA r :
  With({i \in 1..Len(r) : r[i] \in Seps(plat)}, LAMBDA ps :
    IF ps = {} THEN r ELSE Slice(r, MaxOf(ps) + 1, Len(r))))


(***************************************************************************)
(* Protocol texts.                                                         *)
(***************************************************************************)
T_LIST == <<"L", "I", "S", "T", ":">>
T_ERR == <<"E", "R", "R", ":">>
T_FILEBEGIN == <<"F", "I", "L", "E", "B", "E", "G", "I", "N", " ">>
T_FILEEND == <<"F", "I", "L", "E", "E", "N", "D">>
CMD_LIST == <<"#", "L", "I", "S", "T">>
CMD_GET == <<"#", "G", "E", "T", " ">>

(***************************************************************************)
(* request_list, lines 89-96: one LIST: line to a descriptor.  ok = FALSE  *)
(* is the except branch (the line is skipped with a warning).              *)
(***************************************************************************)
ParseListLine(line) ==
  With(Slice(line, Len(T_LIST) + 1, Len(line)), LAMBDA rest :
  With(RSplitColon(rest), LAMBDA parts :
    IF Len(parts) # 2 THEN [ok |-> FALSE, path |-> <<>>, size |-> 0]
    ELSE With(ParseInt(parts[2]), LAMBDA n :
           IF n.ok THEN [ok |-> TRUE, path |-> Strip(parts[1]), size |-> n.val]
           ELSE [ok |-> FALSE, path |-> <<>>, size |-> 0])))

(***************************************************************************)
(* request_get, lines 120-125: the FILEBEGIN header to (recv_path, size).  *)
(***************************************************************************)
ParseHeader(h) ==
  With(SplitSpace2(h), LAMBDA parts :
    IF Len(parts) # 3 THEN [ok |-> FALSE, recv_path |-> <<>>, size |-> 0]
    ELSE With(Strip(parts[3]), LAMBDA size_s :
         With(ParseInt(size_s), LAMBDA n :
           IF n.ok THEN [ok |-> TRUE, recv_path |-> parts[2], size |-> n.val]
           ELSE [ok |-> FALSE, recv_path |-> <<>>, size |-> 0])))

\* request_get, line 129: the name of the output file
OutName(plat, recv) == With(Strip(recv), LAMBDA p : Basename(plat, p))

\* the longest file name the file system of out_dir takes: 255 bytes of
\* UTF-8 on POSIX, 255 units of UTF-16 on Windows
NAME_MAX == 255

\* open(out_path, "wb") raises when out_path names a directory, out_dir
\* itself ("" and ".") or its parent (".."), or on Windows a drive:
\* IsADirectoryError or PermissionError; when the name holds a NUL:
\* ValueError; when the name is longer than the file system takes, or holds
\* a character Windows takes in no name (the control characters and
\* < > " | ? *): OSError.
OpenRaises(plat, fname) ==
  \/ SplitDrive(plat, fname).rest \in {<<>>, <<".">>, <<".", ".">>}
  \/ \E i \in 1..Len(fname) : fname[i] = NUL
  \/ (IF plat = "nt"
      THEN Len(fname) + Cardinality({i \in 1..Len(fname) :
                                       ~IsAscii(fname[i]) /\ CharVal(fname[i]) >= 65536})
      ELSE Len(Encode(fname))) > NAME_MAX
  \/ /\ plat = "nt"
     /\ \E i \in 1..Len(fname) :
          \/ fname[i] \in {"<", ">", "\"", "|", "?", "*", TAB, LF, CR, FF}
          \/ (Len(fname[i]) = 3 /\ Head(fname[i]) = "x"
                /\ ByteVal(fname[i]) \in 1..31)

\* --out, the output directory (a path relative to the working directory)
OUT_DIR == <<"o", "u", "t">>

\* line 130: os.path.join(a, b), a being a path without a drive as out_dir
\* is.  On Windows b replaces a when b carries a drive or begins with a
\* separator.
OsPathJoin(plat, a, b) ==
  IF plat = "nt"
  THEN IF SplitDrive(plat, b).drive # <<>> \/ (b # <<>> /\ b[1] \in Seps(plat)) THEN b
       ELSE IF a = <<>> \/ Last(a) \in Seps(plat) THEN a \o b
       ELSE a \o <<"\\">> \o b
  ELSE IF StartsWith(b, <<"/">>) THEN b
  ELSE IF a = <<>> \/ EndsWith(a, <<"/">>) THEN a \o b
  ELSE a \o <<"/">> \o b

\* the components of a path, between its separators
RECURSIVE Components(_, _)
Components(plat, p) ==
  With({i \in 1..Len(p) : p[i] \in Seps(plat)}, LAMBDA ps :
    IF ps = {} THEN <<p>>
    ELSE <<Slice(p, 1, MinOf(ps) - 1)>>
           \o With(Slice(p, MinOf(ps) + 1, Len(p)), LAMBDA rest :
                Components(plat, rest)))

\* the directory walk open() makes of the components: "" and "." stay, ".."
\* goes up (never above the root of an absolute path)
RECURSIVE Walk(_, _, _)
Walk(cs, at, abs) ==
  IF cs = <<>> THEN at
  ELSE IF cs[1] \in {<<>>, <<".">>} THEN Walk(Tail(cs), at, abs)
  ELSE IF cs[1] = <<".", ".">>
       THEN IF at # <<>> /\ at[Len(at)] # <<".", ".">>
            THEN Walk(Tail(cs), Slice(at, 1, Len(at) - 1), abs)
            ELSE IF abs THEN Walk(Tail(cs), at, abs)
            ELSE Walk(Tail(cs), Append(at, cs[1]), abs)
  ELSE Walk(Tail(cs), Append(at, cs[1]), abs)

\* line 135: the place open(out_path, "wb") opens: the drive, whether the
\* path behind it is absolute, and the directories and the name it leads
\* through
Location(plat, p) ==
  With(SplitDrive(plat, p), LAMBDA d :
  With(d.rest # <<>> /\ d.rest[1] \in Seps(plat), LAMBDA abs :
    [drive |-> d.drive, abs |-> abs,
     parts |-> With(Components(plat, d.rest), LAMBDA cs : Walk(cs, <<>>, abs))]))

\* the place is a file directly inside out_dir
InOutDir(plat, loc) ==
  /\ loc.drive = Location(plat, OUT_DIR).drive
  /\ loc.abs = Location(plat, OUT_DIR).abs
  /\ Len(loc.parts) = Len(Location(plat, OUT_DIR).parts) + 1
  /\ Slice(loc.parts, 1, Len(loc.parts) - 1) = Location(plat, OUT_DIR).parts

(***************************************************************************)
(* The serial stream from the device: a sequence of items, each a byte     *)
(* (d = 0) or a pause of d ticks (b = ""), tagged with the number of the   *)
(* command it answers.                                                     *)
(***************************************************************************)
Bytes(s, k) == [i \in 1..Len(s) |-> [b |-> s[i], d |-> 0, own |-> k]]
Pause(n, k) == IF n = 0 THEN <<>> ELSE <<[b |-> "", d |-> n, own |-> k]>>
Line(s) == s \o CRLF

\* number of bytes at the head of the stream that are there to be read now
Ready(w) ==
  With({i \in 1..Len(w) : w[i].d > 0}, LAMBDA pauses :
    IF pauses = {} THEN Len(w) ELSE MinOf(pauses) - 1)

\* the stream after t ticks in which nothing is read: the bytes whose pause
\* has passed are there to be read
RECURSIVE Elapse(_, _)
Elapse(w, t) ==
  With({i \in 1..Len(w) : w[i].d > 0}, LAMBDA pauses :
    IF t = 0 \/ pauses = {} THEN w
    ELSE With(MinOf(pauses), LAMBDA p :
           IF w[p].d > t THEN [w EXCEPT ![p].d = @ - t]
           ELSE Elapse(Slice(w, 1, p - 1) \o Slice(w, p + 1, Len(w)), t - w[p].d)))

\* a read of n bytes with left ticks of its timeout to go: the bytes that
\* are there, then those that arrive before the timeout
RECURSIVE SerReadIn(_, _, _)
SerReadIn(w, n, left) ==
  With(IF Ready(w) < n THEN Ready(w) ELSE n, LAMBDA k :
  With(Slice(w, k + 1, Len(w)), LAMBDA rest :
  With([i \in 1..k |-> w[i].b], LAMBDA got :
    IF k = n THEN [data |-> got, wire |-> rest, dt |-> 0]
    ELSE IF rest # <<>> /\ rest[1].d < left
         THEN With(SerReadIn(Tail(rest), n - k, left - rest[1].d), LAMBDA r :
                [data |-> got \o r.data, wire |-> r.wire, dt |-> rest[1].d + r.dt])
         ELSE [data |-> got, wire |-> Elapse(rest, left), dt |-> left])))

\* ser.read(n) with timeout=0.2 (line 45): returns when n bytes are read or
\* the timeout has passed; dt is the time the call took.
SerRead(w, n) == SerReadIn(w, n, SER_TIMEOUT)

\* bytes of the stream not yet read (arrived or still to arrive)
Unread(w) == {i \in 1..Len(w) : w[i].d = 0}


(***************************************************************************)
(* The device (ESP32 firmware, protocol of lines 6-11).  An answer is a    *)
(* sequence of chunks: d ticks of silence, then the bytes of text.         *)
(***************************************************************************)
Chunk(d, text) == [d |-> d, text |-> text]

RECURSIVE WireOf(_, _)
WireOf(ans, k) ==
  IF ans = <<>> THEN <<>>
  ELSE Pause(ans[1].d, k) \o Bytes(ans[1].text, k) \o WireOf(Tail(ans), k)

\* all bytes of an answer, pauses left out
RECURSIVE TextOf(_)
TextOf(ans) == IF ans = <<>> THEN <<>> ELSE ans[1].text \o TextOf(Tail(ans))

\* decimal text of a number, as the firmware prints a size
DigitChar(n) ==
  CASE n = 0 -> "0" [] n = 1 -> "1" [] n = 2 -> "2" [] n = 3 -> "3"
    [] n = 4 -> "4" [] n = 5 -> "5" [] n = 6 -> "6" [] n = 7 -> "7"
    [] n = 8 -> "8" [] n = 9 -> "9"
RECURSIVE Dec(_)
Dec(n) == IF n < 10 THEN <<DigitChar(n)>>
          ELSE Dec(n \div 10) \o <<DigitChar(n % 10)>>

\* "LIST:<path>:<size>" and "FILEBEGIN <path> <size>"
ListLine(path, sizeText) == T_LIST \o path \o <<":">> \o sizeText
HeaderLine(path, sizeText) == T_FILEBEGIN \o path \o <<" ">> \o sizeText

\* remote paths
P_A == <<"/", "a">>
P_B == <<"/", "b">>
P_SPACE == <<"/", "a", " ", "b">>
P_COLON == <<"/", "l", "o", "g", "s", "/", "a", ":", "b", ".", "t", "x", "t">>
P_PADDED == <<" ", "/", "a", " ">>
P_DIR == <<"/", "d", "/">>
P_UP == <<"/", "d", "/", ".", ".", "/", "q">>
\* a name with a byte in it that is no UTF-8
P_HIGH == <<"/", HIGH, "xC2", "xA0", "b">>
\* names open() refuses: with a NUL, and of 256 bytes
P_NUL == <<"/", NUL>>
P_LONG == [i \in 1..(NAME_MAX + 2) |-> IF i = 1 THEN "/" ELSE "a"]

T_END == <<"E", "N", "D">>
T_ERRLINE == T_ERR \o <<"x">>

\* files the device may list: the path, the size field as text, its value
Entry(p, text, n) == [path |-> p, text |-> text, size |-> n]
E_A == Entry(P_A, <<"2">>, 2)
E_B == Entry(P_B, <<"3">>, 3)
E_SPACE == Entry(P_SPACE, <<"1">>, 1)
E_COLON == Entry(P_COLON, <<"4", "2">>, 42)
E_PADDED == Entry(P_PADDED, <<"7">>, 7)
E_DIR == Entry(P_DIR, <<"0">>, 0)
E_NEG == Entry(P_A, <<"-", "5">>, 0 - 5)
E_UNDER == Entry(P_B, <<"1", "_", "0">>, 10)
E_TAB == Entry(P_B, <<TAB, "+", "5", " ">>, 5)
\* the size 3 as the Arabic-Indic digit U+0663
E_ARABIC == Entry(P_B, <<"xD9", "xA3">>, 3)
LineOf(e) == ListLine(e.path, e.text)

\* list lines the device may send
LL_A == LineOf(E_A)
LL_B == LineOf(E_B)
LL_SPACE == LineOf(E_SPACE)
LL_DIR == LineOf(E_DIR)
LL_BADSIZE == ListLine(P_A, <<HIGH>>)
LL_NOCOLON == T_LIST \o <<"a">>
LL_FSSIZE == ListLine(P_A, <<FS, "5">>)
\* the size field U+00B2, a superscript two: a digit, not a decimal one
LL_SUPER == ListLine(P_A, <<"xC2", "xB2">>)

\* entries LIST:<path>:<size> with a decimal size
GoodEntries == {E_A, E_B, E_SPACE, E_COLON, E_PADDED}
\* entries whose size field reads as an integer
IntEntries == GoodEntries \cup {E_NEG, E_UNDER, E_TAB, E_ARABIC}
\* a size of one digit more than int() converts
LL_HUGE == ListLine(P_A, [i \in 1..(INT_MAX_STR_DIGITS + 1) |-> "1"])
\* list lines whose size field is missing or nothing int() converts
BadListLines == {LL_BADSIZE, LL_NOCOLON, LL_FSSIZE, LL_SUPER, LL_HUGE}
\* the lines of the short listings (the over-long line is sent in a listing
\* of three lines only)
ListLineMenu == {LineOf(e) : e \in IntEntries} \cup (BadListLines \ {LL_HUGE})

MaxListLines == 2

SeqsUpTo(S, n) == UNION {[1..m -> S] : m \in 0..n}

\* the lines of a listing sent without pauses
Prompt(lines) == [i \in 1..Len(lines) |-> Chunk(0, Line(lines[i]))]

\* how the device ends a listing: silence, a line that is no list line, or an
\* error line
ListEnds == {<<>>, <<T_END>>, <<T_ERRLINE>>}

\* pauses of the device: 0.6 s, shorter than every deadline of the client;
\* 0.3 s, over in the middle of a serial read; 2.4 s, longer than a poll of
\* the listing
SOON == 6
BRIEF == 3
LATE == LIST_LINE_TIMEOUT + 4

\* listings with pauses in them
TimedListings ==
  { <<Chunk(LATE, Line(LL_A)), Chunk(0, Line(T_END))>>,
    <<Chunk(SOON, Line(LL_A)), Chunk(0, Line(T_END))>>,
    <<Chunk(0, Line(LL_A)), Chunk(SOON, Line(LL_B)), Chunk(0, Line(T_END))>>,
    <<Chunk(0, Line(LL_A)), Chunk(LATE, Line(LL_B)), Chunk(0, Line(T_END))>>,
    <<Chunk(0, T_LIST \o P_A), Chunk(SOON, Line(<<":", "2">>)), Chunk(0, Line(T_END))>>,
    <<Chunk(0, T_LIST \o P_A), Chunk(LATE, Line(<<":", "2">>)), Chunk(0, Line(LL_B))>> }

\* listings of three lines, one of them malformed
MixedLists ==
  {<<LL_BADSIZE, LL_B, LL_A>>, <<LL_B, LL_SUPER, LL_A>>, <<LL_B, LL_HUGE, LL_A>>}

\* answers to #LIST when the run is about the listing
ListingAnswers ==
  {Prompt(ls \o e) : ls \in SeqsUpTo(ListLineMenu, MaxListLines) \cup MixedLists,
                     e \in ListEnds}
    \cup TimedListings

\* answers to #LIST when the run is about the downloads that follow
BatchListings ==
  { Prompt(<<LL_A, LL_B, T_END>>),
    Prompt(<<LL_A, LL_SPACE, T_END>>),
    Prompt(<<LL_A, T_ERRLINE>>),
    Prompt(<<LL_DIR, T_END>>),
    <<Chunk(0, Line(LL_A)), Chunk(LATE, Line(LL_B)), Chunk(0, Line(T_END))>>,
    Prompt(<<ListLine(P_HIGH, <<"1">>), T_END>>) }

\* file contents on the device
PAYLOAD == <<"x", HIGH, LF>>
T_BADFOOT == <<"B", "A", "D">>
T_JUNK == <<"H", "I">>

\* FILEBEGIN <path> <size> after pre ticks, the size bytes, FILEEND
PreGet(pre, path, pay) ==
  <<Chunk(pre, Line(HeaderLine(path, Dec(Len(pay))))), Chunk(0, pay),
    Chunk(0, Line(T_FILEEND))>>

\* the same sent at once
GoodGet(path, pay) == PreGet(0, path, pay)

\* the same with pauses shorter than the client's deadlines
SlowGet(path, pay) ==
  <<Chunk(SOON, Line(HeaderLine(path, Dec(Len(pay))))), Chunk(0, Slice(pay, 1, 1)),
    Chunk(BRIEF, Slice(pay, 2, Len(pay))), Chunk(SOON, Line(T_FILEEND))>>

\* the same with text after FILEEND on the footer line
TailGet(path, pay) ==
  <<Chunk(0, Line(HeaderLine(path, Dec(Len(pay))))), Chunk(0, pay),
    Chunk(0, Line(T_FILEEND \o <<" ", "3">>))>>

\* the same with the size written between separator characters
PaddedGet(path, pay) ==
  <<Chunk(0, Line(HeaderLine(path, <<FS>> \o Dec(Len(pay)) \o <<TAB>>))),
    Chunk(0, pay), Chunk(0, Line(T_FILEEND))>>

\* answers that keep to the protocol and to the client's deadlines; the
\* last with the size 3 written as the Arabic-Indic digit U+0663
TimelyGets(path) ==
  { GoodGet(path, PAYLOAD), GoodGet(path, <<>>), SlowGet(path, PAYLOAD),
    TailGet(path, PAYLOAD), PaddedGet(path, PAYLOAD),
    <<Chunk(0, Line(HeaderLine(path, <<"xD9", "xA3">>))), Chunk(0, PAYLOAD),
      Chunk(0, Line(T_FILEEND))>> }

ErrGet == <<Chunk(0, Line(T_ERRLINE))>>

\* header and the first k bytes of the payload, then silence
ShortGet(path, pay, k) ==
  <<Chunk(0, Line(HeaderLine(path, Dec(Len(pay))))), Chunk(0, Slice(pay, 1, k))>>

\* answers that break the protocol or the deadlines
FaultyGets(path) ==
  { <<>>,
    ShortGet(path, PAYLOAD, 0),
    ShortGet(path, PAYLOAD, 2),
    <<Chunk(0, Line(HeaderLine(path, Dec(Len(PAYLOAD))))), Chunk(0, Slice(PAYLOAD, 1, 1)),
      Chunk(READ_FILE_TIMEOUT_S, Slice(PAYLOAD, 2, 3)), Chunk(0, Line(T_FILEEND))>>,
    ShortGet(path, PAYLOAD, 3),
    <<Chunk(0, Line(HeaderLine(path, Dec(Len(PAYLOAD))))), Chunk(0, PAYLOAD),
      Chunk(0, Line(T_BADFOOT))>>,
    <<Chunk(0, Line(T_JUNK))>>,
    <<Chunk(0, Line(HeaderLine(path, <<"z">>))), Chunk(0, PAYLOAD),
      Chunk(0, Line(T_FILEEND))>>,
    <<Chunk(READ_LINE_TIMEOUT_S + SER_TIMEOUT, Line(HeaderLine(path, Dec(Len(PAYLOAD))))),
      Chunk(0, PAYLOAD), Chunk(0, Line(T_FILEEND))>>,
    GoodGet(P_UP, PAYLOAD),
    GoodGet(P_DIR, PAYLOAD),
    GoodGet(P_NUL, PAYLOAD),
    GoodGet(P_LONG, PAYLOAD),
    <<Chunk(0, Line(HeaderLine(path, <<"-", "1">>))), Chunk(0, Line(T_FILEEND))>>,
    <<Chunk(0, Line(HeaderLine(path, <<"2">>))), Chunk(0, PAYLOAD),
      Chunk(0, Line(T_FILEEND))>>,
    <<Chunk(0, Line(HeaderLine(path, Dec(Len(PAYLOAD))))), Chunk(0, PAYLOAD),
      Chunk(0, Slice(T_FILEEND, 1, 2)),
      Chunk(FOOTER_TIMEOUT + SER_TIMEOUT, Line(Slice(T_FILEEND, 3, Len(T_FILEEND))))>> }

GetAnswers(path) == TimelyGets(path) \cup {ErrGet} \cup FaultyGets(path)

\* a file one byte longer than the largest read the client asks for
BIG == [i \in 1..(CHUNK + 1) |-> "x"]
P_BIG == <<"/", "g">>

\* the answers to #LIST of a run, by what the run is about: the listing,
\* the downloads that follow, a file longer than one read, the names of the
\* files (on POSIX and on Windows), the file deadline
ListingsOf(scn) ==
  CASE scn = "listing" -> ListingAnswers
    [] scn = "batch" -> BatchListings
    [] scn = "bulk" -> {Prompt(<<ListLine(P_BIG, Dec(Len(BIG))), T_END>>)}
    [] scn = "names" -> {Prompt(<<LL_A, T_END>>), Prompt(<<LineOf(E_COLON), T_END>>)}
    [] scn = "edge" -> {Prompt(<<LL_A, T_END>>)}

\* the answers to #GET <path> of a run: the large file whole, one byte
\* short, or announced with a size of one digit more than int() converts; a
\* header that names the file asked for, or one with a tabulator,
\* a backslash or a colon in its name; the payload whole, or its first byte
\* at once and the rest 60 s after the header, when the file deadline has
\* come
GetsOf(scn, path) ==
  CASE scn = "bulk" ->
         { GoodGet(path, BIG), ShortGet(path, BIG, CHUNK),
           <<Chunk(0, Line(HeaderLine(path,
                                      [i \in 1..(INT_MAX_STR_DIGITS + 1) |-> "1"]))),
             Chunk(0, PAYLOAD), Chunk(0, Line(T_FILEEND))>> }
    [] scn = "names" ->
         { GoodGet(path, PAYLOAD), GoodGet(<<"/", "a", TAB>>, PAYLOAD),
           GoodGet(<<"/", "d", "\\", "q">>, PAYLOAD), GoodGet(P_COLON, PAYLOAD) }
    [] scn = "edge" ->
         { GoodGet(path, PAYLOAD),
           <<Chunk(0, Line(HeaderLine(path, Dec(Len(PAYLOAD))))),
             Chunk(0, Slice(PAYLOAD, 1, 1)),
             Chunk(READ_FILE_TIMEOUT_S, Slice(PAYLOAD, 2, Len(PAYLOAD))),
             Chunk(0, Line(T_FILEEND))>> }
    [] OTHER -> GetAnswers(path)

\* what the user does at the selection prompt: types numbers, or text that
\* int() rejects (BADINPUT), or interrupts the program (Ctrl-C)
Typed(idxs) == [ok |-> TRUE, idxs |-> idxs, int |-> FALSE]
BADINPUT == [ok |-> FALSE, idxs |-> <<>>, int |-> FALSE]
INTERRUPT == [ok |-> FALSE, idxs |-> <<>>, int |-> TRUE]
Selections ==
  {Typed(<<0, 0>>), Typed(<<1>>), Typed(<<1, 1>>), Typed(<<-1, 7>>), BADINPUT, INTERRUPT}

\* how long the user takes to answer the prompt: no time, 0.6 s, 10 s
InputWaits == {0, SOON, 2 * READ_LINE_TIMEOUT_S}


(***************************************************************************)
(* State.                                                                  *)
(***************************************************************************)
VARIABLES
  pc,         \* where the client is
  now,        \* time.time(), in ticks
  wire,       \* bytes and pauses on their way from the device
  serial,     \* "unopened", "open" or "closed"
  closes,     \* number of ser.close() calls
  args_all,   \* --all
  scenario,   \* what the run exercises: "listing", "batch", "bulk", "names"
              \* or "edge"
  platform,   \* os.name
  files,      \* request_list: files
  start,      \* request_list: start
  ln,         \* result of the last read_line
  deadline,   \* read_line: deadline
  buf,        \* read_line: buf
  ret,        \* read_line: where it returns to
  targets,    \* main: targets
  ti,         \* main: position in targets
  ok,         \* main: ok
  path,       \* request_get: path
  size,       \* request_get: size
  remaining,  \* request_get: remaining
  fdeadline,  \* request_get: deadline of the payload loop
  out_path,   \* request_get: file name inside out_dir
  result,     \* value request_get returned last
  reason,     \* the message request_get printed before it returned
  fs,         \* the files of out_dir: name -> content
  log,        \* messages printed
  summary,    \* the summary line: <<ok, total>>, or <<>> before it is printed
  sent,       \* history: each command sent, with the device's answer
  results,    \* history: value and last message of each request_get call
  timedOut,   \* history: the last operation ended on a deadline
  outside,    \* the files opened for writing outside out_dir: place -> content
  snap,       \* history: the files of out_dir as each request_get call left them
  called      \* history: the stream as it stood when read_line was called

vars == <<pc, now, wire, serial, closes, args_all, scenario, platform, files, start, ln,
          deadline, buf, ret, targets, ti, ok, path, size, remaining, fdeadline,
          out_path, result, reason, fs, log, summary, sent, results, timedOut,
          outside, snap, called>>

\* a file left in out_dir by an earlier run
STALE == <<"o", "l", "d", "e", "r">>

Init ==
  /\ pc = "main"
  /\ now = 0
  /\ wire = <<>>
  /\ serial = "unopened"
  /\ closes = 0
  /\ scenario \in {"listing", "batch", "bulk", "names", "edge"}
  \* os.path is posixpath, or ntpath on Windows (the usage names COM5)
  /\ platform \in {"posix", "nt"}
  /\ scenario # "names" => platform = "posix"
  /\ args_all \in BOOLEAN
  /\ scenario = "listing" => args_all = FALSE
  /\ scenario \in {"bulk", "names", "edge"} => args_all = TRUE
  /\ files = <<>>
  /\ start = 0
  /\ ln = None
  /\ deadline = 0
  /\ buf = <<>>
  /\ ret = "none"
  /\ targets = <<>>
  /\ ti = 0
  /\ ok = 0
  /\ path = <<>>
  /\ size = 0
  /\ remaining = 0
  /\ fdeadline = 0
  /\ out_path = <<>>
  /\ result = FALSE
  /\ reason = ""
  /\ fs = [n \in {Basename(platform, P_A)} |-> STALE]
  /\ log = <<>>
  /\ summary = <<>>
  /\ sent = <<>>
  /\ results = <<>>
  /\ timedOut = FALSE
  /\ outside = <<>>
  /\ snap = <<>>
  /\ called = <<>>

(***************************************************************************)
(* send_cmd, lines 68-71: the command goes out; the device's answer to it  *)
(* joins the stream behind whatever is still on its way.                   *)
(***************************************************************************)
SendCmd(cmd, ans) ==
  /\ wire' = wire \o WireOf(ans, Len(sent) + 1)
  /\ sent' = Append(sent, [cmd |-> Encode(cmd) \o CRLF, ans |-> ans,
                           stream |-> wire \o WireOf(ans, Len(sent) + 1),
                           at |-> now,
                           pending |-> Cardinality(Unread(wire)),
                           pendingPrev |->
                             Cardinality({i \in Unread(wire) : wire[i].own = Len(sent)}),
                           afterTimeout |-> timedOut,
                           returned |-> Len(results)])

(***************************************************************************)
(* read_line, lines 52-66.                                                 *)
(***************************************************************************)
\* the call: deadline = time.time() + timeout_s; buf = bytearray()
CallReadLine(timeout, back, w) ==
  /\ deadline' = now + timeout
  /\ buf' = <<>>
  /\ ret' = back
  /\ called' = w
  /\ pc' = "read_line"

\* one turn of the while loop, or its end
ReadLineStep ==
  /\ pc = "read_line"
  /\ IF now < deadline
     THEN \E r \in {SerRead(wire, 1)} :
              /\ wire' = r.wire
              /\ now' = now + r.dt
              /\ IF r.data = <<>>
                 THEN UNCHANGED <<buf, ln, pc>>
                 ELSE IF EndsWith(buf \o r.data, CRLF)
                      THEN /\ ln' = Decode(Slice(buf \o r.data, 1, Len(buf) - 1))
                           /\ pc' = ret
                           /\ buf' = buf \o r.data
                      ELSE /\ buf' = buf \o r.data
                           /\ UNCHANGED <<ln, pc>>
     ELSE /\ ln' = None
          /\ pc' = ret
          /\ UNCHANGED <<wire, now, buf>>
  /\ UNCHANGED <<platform, called, snap, outside, serial, closes, args_all, scenario, files, start, deadline, ret,
                 targets, ti, ok, path, size, remaining, fdeadline, out_path,
                 result, reason, fs, log, summary, sent, results, timedOut>>

(***************************************************************************)
(* main, lines 167-170: the port is the one given with --port, or the one  *)
(* auto_detect_port finds; without a port main prints a message and        *)
(* returns.                                                                *)
(***************************************************************************)
MainPort ==
  /\ pc = "main"
  /\ \E port \in {"given", "detected", "none"} :
       IF port = "none"
       THEN /\ log' = Append(log, "no port")
            /\ pc' = "done"
       ELSE /\ pc' = "open"
            /\ UNCHANGED log
  /\ UNCHANGED <<platform, called, snap, outside, now, wire, serial, closes, args_all, scenario, files,
                 start, ln, deadline, buf, ret, targets, ti, ok, path, size, remaining,
                 fdeadline, out_path, result, reason, fs, summary, sent, results, timedOut>>

(***************************************************************************)
(* main, lines 172-177: open_serial.                                       *)
(***************************************************************************)
OpenSerial ==
  /\ pc = "open"
  /\ \E opened \in BOOLEAN :
       IF opened
       THEN /\ serial' = "open"
            /\ now' = now + OPEN_SLEEP
            /\ pc' = "request_list"
            /\ UNCHANGED log
       ELSE /\ log' = Append(log, "ERROR open")
            /\ pc' = "done"
            /\ UNCHANGED <<serial, now>>
  /\ UNCHANGED <<platform, called, snap, outside, wire, closes, args_all, scenario, files, start, ln, deadline, buf,
                 ret, targets, ti, ok, path, size, remaining, fdeadline, out_path,
                 result, reason, fs, summary, sent, results, timedOut>>

(***************************************************************************)
(* request_list, lines 73-103.                                             *)
(***************************************************************************)
RequestListSend ==
  /\ pc = "request_list"
  /\ \E ans \in ListingsOf(scenario) : SendCmd(CMD_LIST, ans)
  /\ files' = <<>>
  /\ start' = now
  /\ pc' = "list_loop"
  /\ UNCHANGED <<platform, called, snap, outside, now, serial, closes, args_all, scenario, ln, deadline, buf, ret,
                 targets, ti, ok, path, size, remaining, fdeadline, out_path,
                 result, reason, fs, log, summary, results, timedOut>>

ListPoll ==
  /\ pc = "list_loop"
  /\ CallReadLine(LIST_LINE_TIMEOUT, "list_line", wire)
  /\ UNCHANGED <<platform, snap, outside, now, wire, serial, closes, args_all, scenario, files, start, ln,
                 targets, ti, ok, path, size, remaining, fdeadline, out_path,
                 result, reason, fs, log, summary, sent, results, timedOut>>

\* the loop body with a path already listed left out
ListLoopBody_NoDup(line, fl, elapsed) ==
  IF line = None
  THEN [files |-> fl, again |-> elapsed < LIST_GRACE, msg |-> "", timeout |-> TRUE]
  ELSE IF StartsWith(line, T_LIST)
       THEN With(ParseListLine(line), LAMBDA d :
                IF d.ok
                THEN [files |-> IF \E i \in 1..Len(fl) : fl[i].path = d.path THEN fl
                                ELSE Append(fl, [path |-> d.path, size |-> d.size]),
                      again |-> TRUE, msg |-> "", timeout |-> FALSE]
                ELSE [files |-> fl, again |-> TRUE, msg |-> "WARN list line",
                      timeout |-> FALSE])
       ELSE IF StartsWith(line, T_ERR)
            THEN [files |-> fl, again |-> FALSE, msg |-> "ESP32 ERROR",
                  timeout |-> FALSE]
            ELSE [files |-> fl, again |-> FALSE, msg |-> "", timeout |-> FALSE]

\* the loop body with a malformed list line ending the listing
ListLoopBody_BadEnds(line, fl, elapsed) ==
  IF line = None
  THEN [files |-> fl, again |-> elapsed < LIST_GRACE, msg |-> "", timeout |-> TRUE]
  ELSE IF StartsWith(line, T_LIST) /\ ParseListLine(line).ok
       THEN [files |-> Append(fl, [path |-> ParseListLine(line).path,
                                   size |-> ParseListLine(line).size]),
             again |-> TRUE, msg |-> "", timeout |-> FALSE]
       ELSE IF StartsWith(line, T_ERR)
            THEN [files |-> fl, again |-> FALSE, msg |-> "ESP32 ERROR",
                  timeout |-> FALSE]
            ELSE [files |-> fl, again |-> FALSE, msg |-> "", timeout |-> FALSE]

\* lines 81-102: one turn of the while loop on the line read_line returned:
\* the files after it, whether the loop goes on, and the message printed
ListLoopBody(line, fl, elapsed) ==
  IF line = None
  THEN [files |-> fl, again |-> elapsed < LIST_GRACE, msg |-> "", timeout |-> TRUE]
  ELSE IF StartsWith(line, T_LIST)
       THEN With(ParseListLine(line), LAMBDA d :
                IF d.ok
                THEN [files |-> Append(fl, [path |-> d.path, size |-> d.size]),
                      again |-> TRUE, msg |-> "", timeout |-> FALSE]
                ELSE [files |-> fl, again |-> TRUE, msg |-> "WARN list line",
                      timeout |-> FALSE])
       ELSE IF StartsWith(line, T_ERR)
            THEN [files |-> fl, again |-> FALSE, msg |-> "ESP32 ERROR",
                  timeout |-> FALSE]
            ELSE [files |-> fl, again |-> FALSE, msg |-> "", timeout |-> FALSE]

ListHandleLine ==
  /\ pc = "list_line"
  /\ \E b \in {ListLoopBody(ln, files, now - start)} :
         /\ files' = b.files
         /\ pc' = IF b.again THEN "list_loop" ELSE "listed"
         /\ log' = IF b.msg = "" THEN log ELSE Append(log, b.msg)
         /\ timedOut' = b.timeout
  /\ UNCHANGED <<platform, called, snap, outside, now, wire, serial, closes, args_all, scenario, start, ln, deadline,
                 buf, ret, targets, ti, ok, path, size, remaining, fdeadline,
                 out_path, result, reason, fs, summary, sent, results>>

(***************************************************************************)
(* main, lines 180-204: the listing's result and the choice of targets.    *)
(***************************************************************************)
\* line 197: targets = [files[i] for i in idxs if 0 <= i < len(files)]
RECURSIVE Pick(_, _)
Pick(fl, idxs) ==
  IF idxs = <<>> THEN <<>>
  ELSE (IF 0 <= idxs[1] /\ idxs[1] < Len(fl) THEN <<fl[idxs[1] + 1]>> ELSE <<>>)
         \o Pick(fl, Tail(idxs))

\* lines 190-204 once the selection is known
ChooseTargets(chosen) ==
  /\ targets' = chosen
  /\ IF chosen = <<>>
     THEN /\ log' = Append(log, "INFO no targets")
          /\ pc' = "done"
          /\ UNCHANGED <<ti, ok>>
     ELSE /\ ok' = 0
          /\ ti' = 1
          /\ pc' = "request_get"
          /\ UNCHANGED log

\* input() (line 195) returns when the user has answered: the clock and the
\* device go on meanwhile.  Ctrl-C at the prompt is a KeyboardInterrupt,
\* which "except Exception" (line 198) does not catch.
MainSelect ==
  /\ pc = "listed"
  /\ IF files = <<>>
     THEN /\ log' = Append(log, "INFO no files")
          /\ pc' = "done"
          /\ UNCHANGED <<targets, ti, ok, now, wire>>
     ELSE IF args_all
          THEN /\ ChooseTargets(files)
               /\ UNCHANGED <<now, wire>>
          ELSE \E typed \in (IF scenario = "listing"
                              THEN {Typed(<<>>), BADINPUT, INTERRUPT}
                              ELSE Selections),
                  wait \in InputWaits :
                 /\ now' = now + wait
                 /\ wire' = Elapse(wire, wait)
                 /\ IF typed.int
                    THEN /\ pc' = "interrupted"
                         /\ UNCHANGED <<targets, ti, ok, log>>
                    ELSE IF ~typed.ok
                         THEN /\ log' = Append(log, "WARN input")
                              /\ pc' = "done"
                              /\ UNCHANGED <<targets, ti, ok>>
                         ELSE ChooseTargets(Pick(files, typed.idxs))
  /\ UNCHANGED <<platform, called, snap, outside, serial, closes, args_all, scenario, files, start, ln,
                 deadline, buf, ret, path, size, remaining, fdeadline, out_path,
                 result, reason, fs, summary, sent, results, timedOut>>

(***************************************************************************)
(* request_get, lines 105-157.                                             *)
(***************************************************************************)
\* lines 107-108: the command, and the call of read_line for the header
RequestGetSend ==
  /\ pc = "request_get"
  /\ path' = targets[ti].path
  /\ IF EncodeRaises(CMD_GET \o targets[ti].path)
     THEN /\ pc' = "raised"
          /\ UNCHANGED <<wire, sent, deadline, buf, ret, called>>
     ELSE /\ \E ans \in GetsOf(scenario, Encode(targets[ti].path)) :
               SendCmd(CMD_GET \o targets[ti].path, ans)
          /\ CallReadLine(READ_LINE_TIMEOUT_S, "get_header", wire')
  /\ UNCHANGED <<platform, snap, outside, now, serial, closes, args_all, scenario, files, start, ln, targets,
                 ti, ok, size, remaining, fdeadline, out_path, result, reason, fs, log,
                 summary, results, timedOut>>

\* the header test with a missing header reported as an unexpected one
HeaderOutcome_TimeoutAsJunk(h) ==
  IF h = None THEN "ERROR unexpected header"
  ELSE IF StartsWith(h, T_ERR) THEN "ESP32 ERROR"
  ELSE IF ~StartsWith(h, T_FILEBEGIN) THEN "ERROR unexpected header"
  ELSE IF ~ParseHeader(h).ok THEN "ERROR header parse"
  ELSE "receive"

\* lines 109-125: what the header line leads to
HeaderOutcome(h) ==
  IF h = None THEN "ERROR no header"
  ELSE IF StartsWith(h, T_ERR) THEN "ESP32 ERROR"
  ELSE IF ~StartsWith(h, T_FILEBEGIN) THEN "ERROR unexpected header"
  ELSE IF ~ParseHeader(h).ok THEN "ERROR header parse"
  ELSE "receive"

\* return value of request_get after a failure of the header phase
HeaderFailure(outcome) == FALSE

\* open(out_path, "wb"): the file exists and is empty
OpenWb(disk, name) == [n \in DOMAIN disk \cup {name} |-> IF n = name THEN <<>> ELSE disk[n]]

\* wf.write(chunk)
WriteChunk(disk, name, chunk) == [disk EXCEPT ![name] = @ \o chunk]

\* lines 109-135: the header, and the output file opened; the deadline of
\* the payload loop is set (line 134) before the file is opened (line 135)
GetHandleHeader ==
  /\ pc = "get_header"
  /\ \E outcome \in {HeaderOutcome(ln)}, h \in {ParseHeader(ln)} :
     \E fname \in {OutName(platform, h.recv_path)} :
     \E loc \in {Location(platform, OsPathJoin(platform, OUT_DIR, fname))} :
         IF outcome # "receive"
         THEN /\ log' = Append(log, outcome)
              /\ reason' = outcome
              /\ result' = HeaderFailure(outcome)
              /\ timedOut' = (ln = None)
              /\ pc' = "get_returned"
              /\ UNCHANGED <<size, remaining, fdeadline, out_path, fs, outside, now, wire>>
         ELSE /\ log' = Append(log, "INFO receiving")
              /\ size' = h.size
              /\ out_path' = fname
              /\ remaining' = h.size
              /\ fdeadline' = now + READ_FILE_TIMEOUT_S
              /\ \E raises \in (IF OpenRaises(platform, fname) THEN {TRUE}
                                ELSE IF loc.drive # <<>> THEN BOOLEAN
                                ELSE {FALSE}) :
                   IF raises
                   THEN /\ pc' = "raised"
                        /\ UNCHANGED <<fs, outside, now, wire>>
                   ELSE /\ pc' = "get_payload"
                        /\ IF InOutDir(platform, loc)
                           THEN /\ fs' = OpenWb(fs, Last(loc.parts))
                                /\ UNCHANGED outside
                           ELSE /\ outside' = OpenWb(outside, loc)
                                /\ UNCHANGED fs
                        \* open() takes no time to speak of, or 0.1 s
                        /\ \E took \in (IF scenario = "edge" THEN {0, 1} ELSE {0}) :
                             /\ now' = now + took
                             /\ wire' = Elapse(wire, took)
              /\ UNCHANGED <<result, reason, timedOut>>
  /\ UNCHANGED <<platform, called, snap, serial, closes, args_all, scenario, files, start, ln,
                 deadline, buf, ret, targets, ti, ok, path, summary, sent, results>>

\* line 138: the number of bytes asked of one read
ChunkSize(rem) == IF rem < CHUNK THEN rem ELSE CHUNK

\* the place of the file that is open, and whether it is inside out_dir
OutPlace == Location(platform, OsPathJoin(platform, OUT_DIR, out_path))
OutInside == InOutDir(platform, OutPlace)

\* lines 136-148: one turn of the payload loop, or its end
GetPayloadStep ==
  /\ pc = "get_payload"
  /\ IF remaining > 0 /\ now < fdeadline
     THEN \E r \in {SerRead(wire, ChunkSize(remaining))} :
              /\ wire' = r.wire
              /\ now' = now + r.dt
              /\ IF OutInside
                 THEN /\ fs' = IF r.data = <<>> THEN fs
                               ELSE WriteChunk(fs, out_path, r.data)
                      /\ UNCHANGED outside
                 ELSE /\ outside' = IF r.data = <<>> THEN outside
                                    ELSE WriteChunk(outside, OutPlace, r.data)
                      /\ UNCHANGED fs
              /\ remaining' = remaining - Len(r.data)
              /\ UNCHANGED <<pc, deadline, buf, ret, log, result, reason, timedOut, called>>
     ELSE IF remaining # 0
          THEN /\ log' = Append(log, "ERROR short")
               /\ reason' = "ERROR short"
               /\ result' = FALSE
               /\ timedOut' = (remaining > 0)
               /\ pc' = "get_returned"
               /\ UNCHANGED <<wire, now, fs, outside, remaining, deadline, buf, ret, called>>
          ELSE /\ CallReadLine(FOOTER_TIMEOUT, "get_footer", wire)
               /\ UNCHANGED <<wire, now, fs, outside, remaining, log, result, reason,
                              timedOut>>
  /\ UNCHANGED <<platform, snap, serial, closes, args_all, scenario, files, start, ln, targets, ti,
                 ok, path, size, fdeadline, out_path, summary, sent, results>>

\* line 152: the footer test
FooterOk(footer) == footer # None /\ StartsWith(footer, T_FILEEND)

\* lines 151-157
GetHandleFooter ==
  /\ pc = "get_footer"
  /\ IF FooterOk(ln)
     THEN /\ log' = Append(log, "OK received")
          /\ reason' = "OK received"
          /\ result' = TRUE
          /\ timedOut' = FALSE
     ELSE /\ log' = Append(log, "ERROR footer")
          /\ reason' = "ERROR footer"
          /\ result' = FALSE
          /\ timedOut' = (ln = None)
  /\ pc' = "get_returned"
  /\ UNCHANGED <<platform, called, snap, outside, now, wire, serial, closes, args_all, scenario, files, start, ln,
                 deadline, buf, ret, targets, ti, ok, path, size, remaining,
                 fdeadline, out_path, fs, summary, sent, results>>

(***************************************************************************)
(* main, lines 206-214: the batch loop, the summary and the close.         *)
(***************************************************************************)
\* lines 208-211, and the next turn of the for loop
MainAfterGet ==
  /\ pc = "get_returned"
  /\ results' = Append(results, [value |-> result, msg |-> reason])
  /\ snap' = Append(snap, fs)
  /\ IF result
     THEN /\ ok' = ok + 1
          /\ UNCHANGED log
     ELSE /\ log' = Append(log, "FAIL")
          /\ UNCHANGED ok
  /\ IF ti < Len(targets)
     THEN /\ ti' = ti + 1
          /\ pc' = "request_get"
     ELSE /\ pc' = "summary"
          /\ UNCHANGED ti
  /\ UNCHANGED <<platform, called, outside, now, wire, serial, closes, args_all, scenario, files, start, ln,
                 deadline, buf, ret, targets, path, size, remaining, fdeadline,
                 out_path, result, reason, fs, summary, sent, timedOut>>

\* lines 213-214
MainSummary ==
  /\ pc = "summary"
  /\ summary' = <<ok, Len(targets)>>
  /\ serial' = "closed"
  /\ closes' = closes + 1
  /\ pc' = "done"
  /\ UNCHANGED <<platform, called, snap, outside, now, wire, args_all, scenario, files, start, ln, deadline, buf, ret,
                 targets, ti, ok, path, size, remaining, fdeadline, out_path,
                 result, reason, fs, log, sent, results, timedOut>>

Next ==
  \/ MainPort
  \/ OpenSerial
  \/ RequestListSend
  \/ ListPoll
  \/ ReadLineStep
  \/ ListHandleLine
  \/ MainSelect
  \/ RequestGetSend
  \/ GetHandleHeader
  \/ GetPayloadStep
  \/ GetHandleFooter
  \/ MainAfterGet
  \/ MainSummary

Spec == Init /\ [][Next]_vars

\* the program is one thread that runs on while it has a step to take: the
\* clock advances and every serial read returns within its timeout
FairSpec == Spec /\ WF_vars(Next)


(***************************************************************************)
(* Properties.                                                             *)
(***************************************************************************)

\* C1: whenever a command after the first is sent, either no byte of the
\* previous command's answer is still unread or on its way, or the
\* previous operation ended on a deadline.
C1_SendOnlyWhenDrained ==
  \A k \in 2..Len(sent) : sent[k].pendingPrev = 0 \/ sent[k].afterTimeout


\* the descriptor of a listed file: as sent, and with the path trimmed
DescrRaw(e) == [path |-> Decode(e.path), size |-> e.size]
Descr(e) == [path |-> Strip(Decode(e.path)), size |-> e.size]

\* pauses shorter than every deadline of the client
ShortPauses == {0, SOON}

\* entries with a size >= 0, written in ASCII digits or in other decimal digits
ListedEntries == GoodEntries \cup {E_ARABIC}

\* a listing of whole lines LIST:<path>:<size>, each within the poll
\* timeout of the one before, then the end of the listing
WellFormedListing(es, end, pre, gap) ==
  [i \in 1..Len(es) |-> Chunk(IF i = 1 THEN pre ELSE gap, Line(LineOf(es[i])))]
    \o Prompt(end)

\* C2 as claimed: a well-formed listing of N lines gives N descriptors, in
\* the order received, duplicates kept, the i-th being the path and the size
\* of the i-th line.
C2_ListingAsSent ==
  pc = "listed" =>
    \A es \in SeqsUpTo(ListedEntries, MaxListLines), end \in ListEnds,
       pre \in ShortPauses, gap \in ShortPauses :
      sent[1].ans = WellFormedListing(es, end, pre, gap)
        => files = [i \in 1..Len(es) |-> DescrRaw(es[i])]

\* C2 amended: a well-formed listing of N lines gives N descriptors, in the
\* order received, duplicates kept, the i-th being the path of the i-th line
\* without its leading and trailing whitespace, and its size.
C2_ListingTrimmed ==
  pc = "listed" =>
    \A es \in SeqsUpTo(ListedEntries, MaxListLines), end \in ListEnds,
       pre \in ShortPauses, gap \in ShortPauses :
      sent[1].ans = WellFormedListing(es, end, pre, gap)
        => files = [i \in 1..Len(es) |-> Descr(es[i])]

\* a listing of the same file twice has been returned as two descriptors
C2_Witness ==
  /\ pc = "listed"
  /\ sent[1].ans = WellFormedListing(<<E_B, E_B>>, <<T_END>>, 0, 0)
  /\ files = <<Descr(E_B), Descr(E_B)>>

\* C3 as claimed: a list line is split on its last colon; the path is all
\* that stands before that colon, the size the integer after it.
C3_LastColonAsSent ==
  (pc = "list_loop" /\ ln # None) =>
    \A e \in IntEntries :
      ln = Decode(LineOf(e)) => files # <<>> /\ Last(files) = DescrRaw(e)

\* C3 amended: a list line is split on its last colon; the path is what
\* stands before that colon, colons kept, without leading and trailing
\* whitespace, and the size is the integer after it.
C3_LastColonTrimmed ==
  (pc = "list_loop" /\ ln # None) =>
    \A e \in IntEntries :
      ln = Decode(LineOf(e)) => files # <<>> /\ Last(files) = Descr(e)

\* LIST:/logs/a:b.txt:42 has been parsed to /logs/a:b.txt and 42
C3_Witness ==
  /\ pc = "list_loop"
  /\ ln = T_LIST \o P_COLON \o <<":", "4", "2">>
  /\ Last(files) = [path |-> P_COLON, size |-> 42]

\* the entry a list line was made from
EntryOf(line) == CHOOSE e \in IntEntries : LineOf(e) = line

\* the descriptors of the lines of ls that are no malformed ones, in order
RECURSIVE ValidDescrs(_)
ValidDescrs(ls) ==
  IF ls = <<>> THEN <<>>
  ELSE (IF ls[1] \in BadListLines THEN <<>> ELSE <<Descr(EntryOf(ls[1]))>>)
         \o ValidDescrs(Tail(ls))

\* C4: a LIST: line whose size is no integer, or that has no colon after the
\* prefix, adds no descriptor and does not end the listing: the valid lines
\* around it are all in the result, in order.
C4_MalformedSkipped ==
  pc = "listed" =>
    \A ls \in SeqsUpTo(ListLineMenu, MaxListLines) \cup MixedLists, end \in ListEnds :
      (sent[1].ans = Prompt(ls \o end) /\ \E i \in 1..Len(ls) : ls[i] \in BadListLines)
        => files = ValidDescrs(ls)

\* the two valid lines after a malformed one have been listed in their order
C4_Witness ==
  /\ pc = "listed"
  /\ sent[1].ans = Prompt(<<LL_BADSIZE, LL_B, LL_A, T_END>>)
  /\ files = <<Descr(E_B), Descr(E_A)>>
  /\ log = <<"WARN list line">>


(***************************************************************************)
(* What a request_get call was given and what it took: the stream as it    *)
(* stood when the command went out, and the bytes read since.              *)
(***************************************************************************)
Untag(w) == [i \in 1..Len(w) |-> [b |-> w[i].b, d |-> w[i].d]]
IsByte(x) == x.d = 0
BytesOf(w) ==
  LET bs == SelectSeq(w, IsByte)
  IN  [i \in 1..Len(bs) |-> bs[i].b]

\* the stream of the command in progress
Stream == sent[Len(sent)].stream

\* the stream begins with answer ans / is answer ans and nothing else
BeginsWith(w, ans) ==
  /\ Len(w) >= Len(WireOf(ans, 0))
  /\ Untag(SubSeq(w, 1, Len(WireOf(ans, 0)))) = Untag(WireOf(ans, 0))
IsAnswer(w, ans) == Untag(w) = Untag(WireOf(ans, 0))

\* the bytes the command in progress has read so far
Consumed == Slice(BytesOf(Stream), 1, Len(BytesOf(Stream)) - Len(BytesOf(wire)))

\* position of the first CRLF of t, 0 when there is none
FirstCrlf(t) ==
  LET ps == {i \in 1..(Len(t) - 1) : t[i] = CR /\ t[i + 1] = LF}
  IN  IF ps = {} THEN 0 ELSE MinOf(ps)

\* request_get has ended: it returned, or an exception left it
GetEnded == pc \in {"get_returned", "raised"}
GetSucceeded == pc = "get_returned" /\ result

\* paths of files the listing can produce
AnnouncedPaths ==
  {P_A, P_B, P_SPACE, P_COLON, P_DIR, P_UP, P_NUL, P_LONG, Encode(Decode(P_HIGH))}
Payloads == {PAYLOAD, <<>>}

\* header, exactly S payload bytes and footer, all within the deadlines
WellFormedGets(q, pay) ==
  {PreGet(0, q, pay), PreGet(BRIEF, q, pay), SlowGet(q, pay), TailGet(q, pay)}

\* the final component of a path: what stands after its last separator
FinalComponent(plat, p) == Last(Components(plat, p))

\* the content of the file request_get has opened
FileContent == IF OutInside THEN fs[out_path] ELSE outside[OutPlace]

\* C5: when a header FILEBEGIN <path> <size> announcing S, exactly S payload
\* bytes within the deadline and a FILEEND line are received, request_get
\* reports success and the output file holds the payload byte for byte,
\* whatever path of a file the listing can produce and whatever S >= 0.
C5_DownloadAnyPath ==
  GetEnded =>
    \A q \in AnnouncedPaths, pay \in Payloads :
      (\E a \in WellFormedGets(q, pay) : BeginsWith(Stream, a))
        => /\ GetSucceeded
           /\ FinalComponent(platform, Decode(q)) \in DOMAIN fs
           /\ fs[FinalComponent(platform, Decode(q))] = pay

\* header announcing the size of pay, the first k bytes of pay, then silence
\* up to the file deadline (with or without the rest after it)
ShortReads(q, pay, k) ==
  { a \in {ShortGet(q, pay, k),
           <<Chunk(0, Line(HeaderLine(q, Dec(Len(pay))))), Chunk(0, Slice(pay, 1, k)),
             Chunk(READ_FILE_TIMEOUT_S, Slice(pay, k + 1, Len(pay))),
             Chunk(0, Line(T_FILEEND))>>} : k < Len(pay) }

\* C6: when the header announces S and only k < S payload bytes arrive before
\* the file deadline, request_get reports failure and the file left on disk
\* holds exactly those k bytes, in order.
C6_ShortReadKeepsPartial ==
  GetEnded =>
    \A q \in AnnouncedPaths, k \in 0..(Len(PAYLOAD) - 1) :
      (\E a \in ShortReads(q, PAYLOAD, k) :
         IF Len(a) = 2 THEN IsAnswer(Stream, a) ELSE BeginsWith(Stream, a))
        => /\ pc = "get_returned"
           /\ ~result
           /\ FinalComponent(platform, Decode(q)) \in DOMAIN fs
           /\ fs[FinalComponent(platform, Decode(q))] = Slice(PAYLOAD, 1, k)

\* the sum of the pauses of a stretch of the stream
RECURSIVE PauseSum(_)
PauseSum(w) == IF w = <<>> THEN 0 ELSE w[1].d + PauseSum(Tail(w))
IsPause(x) == x.d > 0

\* the time at which byte number j of the stream of command k arrives: the
\* time of the send, and the pauses that stand before the byte
ArrivalOf(k, j) ==
  LET w == sent[k].stream
      ps == {i \in 1..Len(w) : w[i].d > 0}
      idx == CHOOSE i \in j..(j + Cardinality(ps)) :
               w[i].d = 0 /\ i - Cardinality({p \in ps : p < i}) = j
  IN  sent[k].at + PauseSum(SelectSeq(SubSeq(w, 1, idx), IsPause))

\* C7: request_get reports success only if it has read a header line that
\* begins with "FILEBEGIN " and parses to (path, size), then exactly size
\* payload bytes, received before the file deadline and all written to the
\* file, then one line that begins with FILEEND; with the payload complete
\* and the footer absent or different it reports failure.
C7_SuccessOnlyIf ==
  /\ GetSucceeded =>
       LET t == Consumed
           e == FirstCrlf(t)
           h == Decode(Slice(t, 1, e - 1))
           n == ParseHeader(h).size
           foot == Slice(t, e + 2 + n, Len(t))
       IN  /\ e > 0
           /\ StartsWith(h, T_FILEBEGIN)
           /\ ParseHeader(h).ok
           /\ n >= 0
           /\ Len(t) >= e + 1 + n
           /\ FileContent = Slice(t, e + 2, e + 1 + n)
           /\ n > 0 => ArrivalOf(Len(sent), e + 1 + n) < fdeadline
           /\ FirstCrlf(foot) = Len(foot) - 1
           /\ StartsWith(foot, T_FILEEND)
  /\ GetEnded =>
       \A q \in AnnouncedPaths :
         (\/ IsAnswer(Stream, ShortGet(q, PAYLOAD, Len(PAYLOAD)))
          \/ BeginsWith(Stream, ShortGet(q, PAYLOAD, Len(PAYLOAD))
                                  \o <<Chunk(0, Line(T_BADFOOT))>>))
           => pc = "get_returned" /\ ~result

\* C8: an ERR: line in place of the header makes request_get report a device
\* error, having read that line and nothing else, and the next request_get,
\* given a well-formed header, payload and footer, succeeds with the payload
\* byte for byte in its file.
C8_ErrThenNextUnaffected ==
  (GetEnded /\ Len(sent) >= 3 /\ IsAnswer(sent[Len(sent) - 1].stream, ErrGet)) =>
    /\ results[sent[Len(sent)].returned] = [value |-> FALSE, msg |-> "ESP32 ERROR"]
    /\ sent[Len(sent)].pending = 0
    /\ \A pay \in Payloads :
         (\E a \in WellFormedGets(Encode(path), pay) : IsAnswer(Stream, a))
           => /\ GetSucceeded
              /\ FinalComponent(platform, path) \in DOMAIN fs
              /\ fs[FinalComponent(platform, path)] = pay

\* number of successes among the results
RECURSIVE Successes(_)
Successes(rs) ==
  IF rs = <<>> THEN 0
  ELSE (IF rs[1].value THEN 1 ELSE 0) + Successes(Tail(rs))

\* C9: with targets chosen, main sends one #GET per target, in target order,
\* each only after the request_get before it has returned; it never ends
\* before the last target; the summary gives ok = the number of successful
\* request_get calls out of total = the number of targets.
C9_BatchRunsToEnd ==
  /\ \A k \in 2..Len(sent) :
       /\ k - 1 <= Len(targets)
       /\ sent[k].cmd = Encode(CMD_GET \o targets[k - 1].path) \o CRLF
       /\ sent[k].returned = k - 2
  /\ (pc \in {"done", "raised"} /\ targets # <<>>) =>
       /\ Len(sent) = Len(targets) + 1
       /\ Len(results) = Len(targets)
       /\ summary = <<Successes(results), Len(targets)>>
       /\ 0 <= summary[1] /\ summary[1] <= summary[2]

\* the three failures of the header phase
HeaderFailures == {"ERROR no header", "ESP32 ERROR", "ERROR unexpected header"}

\* C10 as claimed: a missing header, an ERR: header and a header that does
\* not begin with "FILEBEGIN " give the caller of request_get three different
\* outcomes.
C10_CallerSeesThree ==
  \A i \in 1..Len(results), j \in 1..Len(results) :
    (/\ results[i].msg \in HeaderFailures
     /\ results[j].msg \in HeaderFailures
     /\ results[i].msg # results[j].msg)
      => results[i].value # results[j].value

\* ticks of silence before the first line of w is complete: the pauses that
\* stand before the LF of the first CRLF (seen is the byte before w), and no
\* less than the line timeout when w holds no CRLF
SilenceBeforeLine(w, seen) ==
  LET bs == {i \in 1..Len(w) : w[i].d = 0}
      before(i) == IF i > 1 /\ w[i - 1].d = 0 THEN w[i - 1].b
                   ELSE IF \E j \in bs : j < i
                        THEN w[MaxOf({j \in bs : j < i})].b
                        ELSE seen
      ends == {i \in bs : w[i].b = LF /\ before(i) = CR}
  IN  IF ends = {} THEN PauseSum(SelectSeq(w, IsPause)) + READ_LINE_TIMEOUT_S
      ELSE PauseSum(SelectSeq(SubSeq(w, 1, MinOf(ends)), IsPause))

\* the first line of w
FirstLine(w) == Slice(BytesOf(w), 1, FirstCrlf(BytesOf(w)) - 1)

\* C10 amended: request_get prints a different message for each of the three
\* (no header before the line deadline, a header beginning with ERR:, a
\* header not beginning with "FILEBEGIN ") and returns False to its caller
\* in all three.
C10_ThreeMessagesOneValue ==
  pc = "get_returned" =>
    LET late == SilenceBeforeLine(Stream, "") >= READ_LINE_TIMEOUT_S
        h == Decode(FirstLine(Stream))
    IN  /\ late => (reason = "ERROR no header" /\ ~result)
        /\ (~late /\ StartsWith(h, T_ERR)) => (reason = "ESP32 ERROR" /\ ~result)
        /\ (~late /\ ~StartsWith(h, T_ERR) /\ ~StartsWith(h, T_FILEBEGIN))
             => (reason = "ERROR unexpected header" /\ ~result)

\* one batch has met a missing header and a device error
C10_Witness ==
  /\ Len(results) = 2
  /\ results[1] = [value |-> FALSE, msg |-> "ERROR no header"]
  /\ results[2] = [value |-> FALSE, msg |-> "ESP32 ERROR"]

\* the header line request_get call k - 1 was given (command k of the run)
HeaderOfCall(k) == Decode(FirstLine(sent[k].stream))

\* the file names the headers of the run announce
AnnouncedNames ==
  { FinalComponent(platform, ParseHeader(HeaderOfCall(k)).recv_path) :
      k \in { j \in 2..Len(sent) : /\ StartsWith(HeaderOfCall(j), T_FILEBEGIN)
                                   /\ ParseHeader(HeaderOfCall(j)).ok } }

\* C11: whatever header the device sends (paths with "..", absolute paths,
\* a trailing separator, several directory levels), the only file request_get
\* creates or writes is one directly inside the output directory, named by
\* the final component of the announced path; no place outside the output
\* directory is ever created or modified.
C11_WritesOnlyInsideOutDir ==
  /\ DOMAIN outside = {}
  /\ \A n \in DOMAIN fs : n = Basename(platform, P_A) \/ n \in AnnouncedNames
  /\ pc \in {"get_payload", "get_footer"} =>
       /\ out_path = FinalComponent(platform,
                                    ParseHeader(HeaderOfCall(Len(sent))).recv_path)
       /\ OutInside

\* C12: on every path by which main ends after the link was opened (empty or
\* failed listing, failed selection input, no targets, batch completed) the
\* link has been closed exactly once, and it is never used after the close.
C12_ClosedOnEveryExit ==
  /\ closes <= 1
  /\ (pc = "done" /\ serial # "unopened") =>
       (closes = 1 /\ serial = "closed")
  /\ serial = "closed" => pc = "done"

\* the device ended its listing, sent without pauses, with an ERR: line
ErrListing ==
  /\ sent # <<>>
  /\ sent[1].ans # <<>>
  /\ \A i \in 1..Len(sent[1].ans) : sent[1].ans[i].d = 0
  /\ Last(sent[1].ans) = Chunk(0, Line(T_ERRLINE))

\* request_list has returned
ListReturned ==
  pc \notin {"main", "open", "request_list", "list_loop", "list_line"}
    /\ ~(pc = "read_line" /\ ret = "list_line")

\* C13: when the device sends an ERR: line during the listing (before or
\* after LIST: entries), or the listing is empty, main sends no #GET; and
\* what request_list returns after the ERR: line differs from what it
\* returns after a normal end of the listing.
C13_FailedListingEndsRun ==
  /\ (ErrListing \/ (ListReturned /\ files = <<>>)) => Len(sent) <= 1
  /\ (pc = "list_line" /\ ln # None /\ StartsWith(ln, T_ERR)) =>
       ListLoopBody(ln, files, now - start).files
         # ListLoopBody(T_END, files, now - start).files

\* C14: with the clock advancing and every read returning within its
\* timeout, every call of read_line, request_list and request_get returns,
\* however the device falls silent (before the header, inside a line, inside
\* the payload, before the footer); a request_get that ran into a deadline
\* returns failure.
C14_EveryCallReturns ==
  /\ (pc = "read_line") ~> (pc # "read_line")
  /\ (pc = "request_list") ~> (pc = "listed")
  /\ (pc = "request_get") ~> (pc = "get_returned")
  /\ [](pc = "get_returned" /\ timedOut => ~result)

\* what holds of every call: it ends, by returning or by raising
EveryCallEnds ==
  /\ (pc = "read_line") ~> (pc # "read_line")
  /\ (pc = "request_list") ~> (pc = "listed")
  /\ (pc = "request_get") ~> (pc \in {"get_returned", "raised"})
  /\ [](pc = "get_returned" /\ timedOut => ~result)

\* C15: request_get for the same path twice in succession, the device
\* answering both with the same well-formed header, payload and footer,
\* succeeds twice, and the file after the second call holds what it held
\* after the first: the payload, once.
C15_TwiceSameContent ==
  \A pay \in Payloads :
    /\ (/\ GetEnded
        /\ ti < Len(targets)
        /\ targets[ti + 1].path = path
        /\ \E a \in WellFormedGets(Encode(path), pay) : IsAnswer(Stream, a))
         => GetSucceeded
    /\ (/\ GetEnded
        /\ Len(sent) >= 3
        /\ Len(snap) = Len(sent) - 2
        /\ sent[Len(sent)].cmd = sent[Len(sent) - 1].cmd
        /\ \E a \in WellFormedGets(Encode(path), pay) :
             /\ IsAnswer(sent[Len(sent) - 1].stream, a)
             /\ IsAnswer(Stream, a))
         => /\ results[Len(results)].value
            /\ GetSucceeded
            /\ FinalComponent(platform, path) \in DOMAIN fs
            /\ fs[FinalComponent(platform, path)] = pay
            /\ snap[Len(snap)][FinalComponent(platform, path)] = pay

\* C16: when the first poll of request_list times out without a line, the
\* client does not conclude at once that there are no files: within the
\* grace period, measured from the send of #LIST, it polls again.
C16_FirstTimeoutPollsAgain ==
  (pc = "list_line" /\ ln = None /\ files = <<>> /\ log = <<>>
     /\ now - start = LIST_LINE_TIMEOUT) =>
    ListLoopBody(ln, files, now - start).again

\* the timeout of the read_line call that has just returned
TimeoutOf(back) ==
  CASE back = "list_line" -> LIST_LINE_TIMEOUT
    [] back = "get_header" -> READ_LINE_TIMEOUT_S
    [] back = "get_footer" -> FOOTER_TIMEOUT

\* read_line has just returned
ReadLineReturned == pc \in {"list_line", "get_header", "get_footer"}

\* C17: read_line returns the bytes before the first CRLF of the stream
\* (decoded, terminator stripped, no CRLF in them) and consumes no byte after
\* that CRLF; it returns None if and only if no CRLF was completed before the
\* deadline; and the bytes of an unterminated line received before the
\* deadline are not lost: they are still there for the next read.
C17_ReadLineKeepsBytes ==
  ReadLineReturned =>
    LET t == BytesOf(called)
        e == FirstCrlf(t)
    IN  /\ ln # None =>
             /\ e > 0
             /\ ln = Decode(Slice(t, 1, e - 1))
             /\ FirstCrlf(ln) = 0
             /\ BytesOf(wire) = Slice(t, e + 2, Len(t))
        /\ ln = None <=> SilenceBeforeLine(called, "") >= TimeoutOf(pc)
        /\ ln = None => BytesOf(wire) = t

\* the first two conjuncts of C17, which hold
ReadLineFirstLine ==
  ReadLineReturned =>
    LET t == BytesOf(called)
        e == FirstCrlf(t)
    IN  /\ ln # None =>
             /\ e > 0
             /\ ln = Decode(Slice(t, 1, e - 1))
             /\ FirstCrlf(ln) = 0
             /\ BytesOf(wire) = Slice(t, e + 2, Len(t))
        /\ ln = None <=> SilenceBeforeLine(called, "") >= TimeoutOf(pc)

\* bytes written to the output file so far
Written == Len(FileContent)

\* what the payload loop has taken from the stream: the header line was
\* read from the stream `called`, the bytes written follow it, the rest is
\* still on the wire
PayloadFromStream ==
  LET t == BytesOf(called)
      e == FirstCrlf(t)
  IN  /\ FileContent = Slice(t, e + 2, e + 1 + Written)
      /\ BytesOf(wire) = Slice(t, e + 2 + Written, Len(t))

\* C18: in every state of the payload phase, bytes written + remaining =
\* announced size and 0 <= remaining <= size; a read asks for at most
\* min(remaining, 4096) bytes; no more than size bytes are taken as payload
\* and no byte of the footer line is.
C18_PayloadBounds ==
  pc = "get_payload" =>
    /\ Written + remaining = size
    /\ 0 <= remaining /\ remaining <= size
    /\ ChunkSize(remaining) <= remaining /\ ChunkSize(remaining) <= CHUNK
    /\ Written <= size
    /\ PayloadFromStream

\* C19: every descriptor request_list collects has a size >= 0; a LIST: line
\* with a negative size field (LIST:/a:-5) produces no descriptor.
C19_SizesNonNegative ==
  /\ \A i \in 1..Len(files) : files[i].size >= 0
  /\ \A i \in 1..Len(files) : files[i] # [path |-> E_NEG.path, size |-> E_NEG.size]

\* the bytes of the device's answer to command k
AnswerBytes(k) == BytesOf(WireOf(sent[k].ans, k))

\* C20: when request_get(P) reports success, the file it wrote is named
\* after the final component of P and holds the payload the device sent in
\* answer to this #GET P: the header of that answer announces P, and nothing
\* the call read was the late answer to an earlier command.
C20_SuccessIsForRequestedPath ==
  GetSucceeded =>
    LET k == Len(sent)
        t == AnswerBytes(k)
        e == FirstCrlf(t)
        h == ParseHeader(Decode(Slice(t, 1, e - 1)))
    IN  /\ out_path = FinalComponent(platform, path)
        /\ e > 0
        /\ h.ok
        /\ Strip(h.recv_path) = path
        /\ BytesOf(sent[k].stream) = t
        /\ OutInside
        /\ fs[out_path] = Slice(t, e + 2, e + 1 + h.size)

====
